---- MODULE Spec2Model ----
(***************************************************************************)
(* Model of the trojan-exoplanets simulator: the initial-condition parser  *)
(* (parse_line, parse_system), the gravity evaluator g, the RK4 propagator *)
(* propogate_orbits, the orbital-period query of CelestialBody and the     *)
(* yearly stability loop of simulate.                                      *)
(*                                                                         *)
(* Numbers.  The program computes in IEEE doubles; the model computes in   *)
(* integers, every division rounding toward zero (Quot).  Time is counted  *)
(* in quarter-days, the largest unit in which both DAY and YEAR of         *)
(* simulate are whole numbers (DAY = 4, YEAR = 365.25 * DAY = 1461), and   *)
(* G is 1 in the model's mass and length units.  The margin is counted in  *)
(* tenths of a percent.  A numpy vector whose components are all nan (the  *)
(* result of 0/0, which numpy returns with a warning, not an exception) is *)
(* the value NaN3; nan is absorbing in every vector operation.             *)
(*                                                                         *)
(* Names across the repository's files.  simulate calls the propagator as  *)
(* propogate_Verlet and the period query as period; the repository         *)
(* defines them as propogate_orbits and orbital_period, which is what the  *)
(* model calls.  parse_line passes type= and trojan= to CelestialBody and  *)
(* parse_system reads body.type and body.trojan: the body record has those *)
(* two fields.  Line 74 of propogate_orbits.py calls g without the body    *)
(* list; the model passes the list there as lines 70, 72 and 76 do.        *)
(***************************************************************************)
EXTENDS Integers, Sequences, FiniteSets, TLC

VARIABLES
    file,           \* the lines of the initial-condition file (argv "file")
    time_step,      \* argv "step"
    margin,         \* argv "margin", in tenths of a percent
    pc,             \* position of the program
    raised,         \* the exception that ended the run, "" when none
    bodies,         \* the body list, indexed from 0
    trojans,        \* the two Trojan indices, indexed from 0
    acceleration,   \* body.acceleration, by index
    i,              \* loop index of propogate_orbits
    pre,            \* the body list as it entered the running propogate_orbits call
    time,           \* simulate: time
    years,          \* simulate: years
    in_margin,      \* simulate: in_margin
    reason,         \* which assignment cleared in_margin
    sampled,        \* whether the last loop iteration took the yearly branch
    t,              \* simulate: t
    p1,             \* simulate: p1
    p2              \* simulate: p2

vars == <<file, time_step, margin, pc, raised, bodies, trojans, acceleration,
          i, pre, time, years, in_margin, reason, sampled, t, p1, p2>>

-----------------------------------------------------------------------------
(* Bounds of the model *)

\* Longest file, in lines.
MaxLines == 3

\* Stands for the cap of simulate line 255 (10e6 years), scaled down.
YearCap == 3

\* How far below zero the elapsed time may run (a negative step never ends).
MaxBackSteps == 2

-----------------------------------------------------------------------------
(* Program constants, in the model's units *)

G == 1
DAY == 4
YEAR == 1461

-----------------------------------------------------------------------------
(* Arithmetic *)

\* F applied to the value of v, the value computed once however often F
\* uses it.
Let1(v, F(_)) == CHOOSE r \in {F(x) : x \in {v}} : TRUE
Let2(u, v, F(_, _)) == CHOOSE r \in {F(x, y) : x \in {u}, y \in {v}} : TRUE

Abs(x) == Let1(x, LAMBDA v : IF v < 0 THEN -v ELSE v)

\* Division rounding toward zero; the divisor is not zero.
Quot(a, b) ==
    Let2(a, b, LAMBDA x, y :
        IF (x >= 0) = (y > 0) THEN Abs(x) \div Abs(y)
                              ELSE -(Abs(x) \div Abs(y)))

RECURSIVE NewtonSqrt(_, _)
NewtonSqrt(n, x) ==
    Let1((x + n \div x) \div 2, LAMBDA y :
        IF y >= x THEN x ELSE NewtonSqrt(n, y))

\* Integer square root of n >= 0.
ISqrt(n) == Let1(n, LAMBDA m : IF m = 0 THEN 0 ELSE NewtonSqrt(m, m))

NaN3 == <<>>
IsNaN(v) == v = NaN3
Zero3 == <<0, 0, 0>>

VAdd(a, b) ==
    Let2(a, b, LAMBDA x, y :
        IF IsNaN(x) \/ IsNaN(y) THEN NaN3
        ELSE <<x[1] + y[1], x[2] + y[2], x[3] + y[3]>>)

VSub(a, b) ==
    Let2(a, b, LAMBDA x, y :
        IF IsNaN(x) \/ IsNaN(y) THEN NaN3
        ELSE <<x[1] - y[1], x[2] - y[2], x[3] - y[3]>>)

VScale(a, s) ==
    Let2(a, s, LAMBDA x, c :
        IF IsNaN(x) THEN NaN3 ELSE <<x[1] * c, x[2] * c, x[3] * c>>)

\* a / n for a number n that is not zero.
VDiv(a, n) ==
    Let1(a, LAMBDA x :
        IF IsNaN(x) THEN NaN3
        ELSE <<Quot(x[1], n), Quot(x[2], n), Quot(x[3], n)>>)

\* np.linalg.norm
Norm(a) == Let1(a, LAMBDA x : ISqrt(x[1] * x[1] + x[2] * x[2] + x[3] * x[3]))

\* x / n ** 3 for n > 0, dividing three times so that n ** 3 is never formed.
QuotCube(x, n) == Quot(Quot(Quot(x, n), n), n)

-----------------------------------------------------------------------------
(* propogate_orbits.py: g *)

\* First index the summation of g visits.
gFirst == 1

\* r / (np.linalg.norm(r) ** 3) scaled by k, for a relative position r.
InverseSquare(k, r) ==
    IF IsNaN(r) THEN NaN3
    ELSE Let1(Norm(r), LAMBDA n :
             IF n = 0 THEN NaN3
             ELSE <<QuotCube(k * r[1], n), QuotCube(k * r[2], n),
                    QuotCube(k * r[3], n)>>)

\* One term of the sum: G * mass_body * r / (np.linalg.norm(r) ** 3).
Contribution(pos, body) ==
    Let1(VSub(pos, body.position), LAMBDA r : InverseSquare(G * body.mass, r))

Len0(f) == Cardinality(DOMAIN f)

RECURSIVE gLoop(_, _, _, _, _)
gLoop(j, acc, index, pos, bs) ==
    IF j >= Len0(bs) THEN acc
    ELSE IF j # index
         THEN gLoop(j + 1, VSub(acc, Contribution(pos, bs[j])), index, pos, bs)
         ELSE gLoop(j + 1, acc, index, pos, bs)

g(index, pos, bs) ==
    Let1(pos, LAMBDA p : gLoop(gFirst, Zero3, index, p, bs))

-----------------------------------------------------------------------------
(* propogate_orbits.py: propogate_orbits *)

\* The loop of propogate_orbits started at the star.
FirstUpdatedStar == 1 - 1

\* First index the propagator updates.
FirstUpdated == 1

\* One iteration of the loop of propogate_orbits: body k of list bs advanced
\* by dt, the accelerations read from bs itself.
RK4Body(bs, k, dt) ==
    LET pos == bs[k].position
        vel == bs[k].velocity
        k1v == VScale(g(k, pos, bs), dt)
        k1x == VScale(vel, dt)
        k2v == VScale(g(k, VAdd(pos, VDiv(k1x, 2)), bs), dt)
        k2x == VScale(VAdd(vel, VDiv(k1v, 2)), dt)
        k3v == VScale(g(k, VAdd(pos, VDiv(k2x, 2)), bs), dt)
        k3x == VScale(VAdd(vel, VDiv(k2v, 2)), dt)
        k4v == VScale(g(k, VAdd(pos, k3x), bs), dt)
        k4x == VScale(VAdd(vel, k3v), dt)
        dv  == VDiv(VAdd(VAdd(k1v, VScale(k2v, 2)), VAdd(VScale(k3v, 2), k4v)), 6)
        dx  == VDiv(VAdd(VAdd(k1x, VScale(k2x, 2)), VAdd(VScale(k3x, 2), k4x)), 6)
    IN  [bs EXCEPT ![k].velocity = VAdd(vel, dv),
                   ![k].position = VAdd(pos, dx)]

-----------------------------------------------------------------------------
(* celestial_body.py: the orbital queries.  A query result is <<x>> for a  *)
(* finite number x and <<>> for inf or nan.                                *)

Finite(x) == <<x>>
NonFinite == <<>>

standard_gravitational_parameter(self, central) ==
    G * (self.mass + central.mass)

specific_orbital_energy(self, central) ==
    LET d == VSub(self.position, central.position)
    IN  IF IsNaN(d) THEN NonFinite
        ELSE IF Norm(d) = 0 THEN NonFinite
        ELSE LET r  == Norm(d)
                 v  == ISqrt(Quot(G * central.mass, r))
                 mu == standard_gravitational_parameter(self, central)
             IN  Finite(Quot(v * v, 2) - Quot(mu, r))

semimajor_axis(self, central) ==
    LET mu      == standard_gravitational_parameter(self, central)
        epsilon == specific_orbital_energy(self, central)
    IN  IF epsilon = NonFinite THEN NonFinite
        ELSE IF epsilon[1] = 0 THEN NonFinite
        ELSE Finite(Quot(-mu, 2 * epsilon[1]))

\* Line 117: T = 2 * np.pi * np.sqrt((a ** 3) / mu), pi taken as 355/113.
KeplerT(a, mu) ==
    IF a = NonFinite \/ mu = 0 THEN NonFinite
    ELSE IF a[1] < 0 THEN NonFinite
    ELSE Finite(Quot(2 * 355 * ISqrt(Quot(a[1] * a[1] * a[1], mu)), 113))

\* Lines 113-119: the value returned is mu, not T.
orbital_period(self, central) ==
    LET a  == semimajor_axis(self, central)
        mu == standard_gravitational_parameter(self, central)
        T  == KeplerT(a, mu)
    IN  mu

-----------------------------------------------------------------------------
(* trojan_exoplanets.py: parse_line, parse_system *)

Append0(f, x) ==
    Let2(f, x, LAMBDA h, e :
        [k \in 0 .. Len0(h) |-> IF k < Len0(h) THEN h[k] ELSE e])

KINDS == {"STAR", "GIANT", "TERRESTRIAL"}

\* A line is the record of its tokens: the kind word and the values of the
\* keys trojan, name, mass, position and velocity.  The result is
\* [err |-> message] or [err |-> "", body |-> the CelestialBody].
parse_line(line) ==
    IF line.kind \notin KINDS
    THEN [err |-> "Each line must start with a valid object type specification."]
    ELSE [err  |-> "",
          body |-> [type     |-> line.kind,
                    trojan   |-> (line.trojan = "True"),
                    name     |-> line.name,
                    mass     |-> line.mass,
                    position |-> line.position,
                    velocity |-> line.velocity]]

\* Lines 127-130: the loop that puts the star in front.
RECURSIVE StarToFront(_, _)
StarToFront(bs, k) ==
    IF k >= Len0(bs) THEN bs
    ELSE IF bs[k].type = "STAR"
         THEN StarToFront([bs EXCEPT ![0] = bs[k], ![k] = bs[0]], k + 1)
         ELSE StarToFront(bs, k + 1)

\* Lines 108-121: the loop over the lines, from line k on.
RECURSIVE ParseLines(_, _, _, _, _, _)
ParseLines(lines, k, star_count, trojan_count, trs, bs) ==
    IF k >= Len(lines)
    THEN [err |-> "", trojan_count |-> trojan_count, trojans |-> trs, bodies |-> bs]
    ELSE LET parsed == parse_line(lines[k + 1])
         IN  IF parsed.err # "" THEN [err |-> parsed.err]
             ELSE LET body == parsed.body
                      sc   == IF body.type = "STAR" THEN star_count + 1
                                                     ELSE star_count
                  IN  IF body.trojan /\ trojan_count >= 2
                      THEN [err |-> "IndexError: list assignment index out of range"]
                      ELSE LET tc == IF body.trojan THEN trojan_count + 1
                                                    ELSE trojan_count
                               tr == IF body.trojan
                                     THEN [trs EXCEPT ![trojan_count] = k]
                                     ELSE trs
                           IN  IF sc > 1
                               THEN [err |-> "Multi-star systems are not allowed."]
                               ELSE ParseLines(lines, k + 1, sc, tc, tr,
                                               Append0(bs, body))

\* [err |-> message] or [err |-> "", bodies |-> ..., trojans |-> ...].
parse_system(lines) ==
    LET looped == ParseLines(lines, 0, 0, 0, [k \in 0 .. 1 |-> 0], <<>>)
    IN  IF looped.err # "" THEN [err |-> looped.err]
        ELSE IF looped.trojan_count # 2
        THEN [err |-> "The system must have a single Trojan pair."]
        ELSE [err     |-> "",
              bodies  |-> IF looped.bodies[0].type # "STAR"
                          THEN StarToFront(looped.bodies, 0)
                          ELSE looped.bodies,
              trojans |-> looped.trojans]

-----------------------------------------------------------------------------
(* trojan_exoplanets.py: check_margins *)

\* p_diff = (diff / avg) * 100 as the fraction num / den; den = 0 is nan.
PercentDiff(P1, P2) == [num |-> 200 * Abs(P1 - P2), den |-> P1 + P2]

\* p_diff > margin, the margin m in tenths of a percent (the 10); nan > m is
\* false.
Exceeds(pd, m) == pd.den > 0 /\ pd.num * 10 > m * pd.den

\* check_margins with >= in place of >.
check_marginsGE(trojan1, trojan2, central, m) ==
    LET pd == PercentDiff(orbital_period(trojan1, central),
                          orbital_period(trojan2, central))
    IN  ~ (pd.den > 0 /\ pd.num * 10 >= m * pd.den)

check_margins(trojan1, trojan2, central, m) ==
    LET P1 == orbital_period(trojan1, central)
        P2 == orbital_period(trojan2, central)
    IN  ~ Exceeds(PercentDiff(P1, P2), m)

-----------------------------------------------------------------------------
(* The inputs *)

Star == [kind |-> "STAR", trojan |-> "False", name |-> "Sol", mass |-> 396,
         position |-> <<0, 0, 0>>, velocity |-> <<0, 0, 1>>]

TrojanA == [kind |-> "GIANT", trojan |-> "True", name |-> "A", mass |-> 4,
            position |-> <<10, 0, 0>>, velocity |-> <<0, 1, 0>>]

TrojanB == [kind |-> "TERRESTRIAL", trojan |-> "True", name |-> "B", mass |-> 8,
            position |-> <<-10, 0, 0>>, velocity |-> <<0, -1, 0>>]

\* Starts where TrojanA starts, at rest.
TrojanC == [kind |-> "GIANT", trojan |-> "True", name |-> "C", mass |-> 4,
            position |-> <<10, 0, 0>>, velocity |-> <<0, 0, 0>>]

Lines == {Star, TrojanA, TrojanB, TrojanC}

Files == UNION {[1 .. n -> Lines] : n \in 0 .. MaxLines}

\* argv "step", in quarter-days.
StepValues == {-1000, 0, 1000, YEAR, 2 * YEAR}

\* argv "margin", in tenths of a percent.
MarginValues == {0, 5, 10}

-----------------------------------------------------------------------------
(* trojan_exoplanets.py: __main__ and simulate *)

Init ==
    /\ file = <<>>
    /\ time_step = 0
    /\ margin = 0
    /\ pc = "args"
    /\ raised = ""
    /\ bodies = <<>>
    /\ trojans = <<>>
    /\ acceleration = <<>>
    /\ i = 0
    /\ pre = <<>>
    /\ time = 0
    /\ years = 0
    /\ in_margin = TRUE
    /\ reason = ""
    /\ sampled = FALSE
    /\ t = <<>>
    /\ p1 = <<>>
    /\ p2 = <<>>

\* Lines 266-274: the command line is read.
ParseArgs ==
    /\ pc = "args"
    /\ file' \in Files
    /\ time_step' \in StepValues
    /\ margin' \in MarginValues
    /\ pc' = "main"
    /\ UNCHANGED <<raised, bodies, trojans, acceleration, i, pre, time, years,
                   in_margin, reason, sampled, t, p1, p2>>

\* Lines 277-278: parse_system, then the call of simulate.
Main ==
    /\ pc = "main"
    /\ LET r == parse_system(file)
       IN  IF r.err # ""
           THEN /\ pc' = "raised"
                /\ raised' = r.err
                /\ UNCHANGED <<bodies, trojans>>
           ELSE /\ pc' = "simulate"
                /\ bodies' = r.bodies
                /\ trojans' = r.trojans
                /\ UNCHANGED raised
    /\ UNCHANGED <<file, time_step, margin, acceleration, i, pre, time, years,
                   in_margin, reason, sampled, t, p1, p2>>

\* Lines 211-230: the locals of simulate and the initial accelerations.
SimulateInit ==
    /\ pc = "simulate"
    /\ time' = 0
    /\ years' = 0
    /\ in_margin' = TRUE
    /\ t' = <<>>
    /\ p1' = <<>>
    /\ p2' = <<>>
    /\ acceleration' = [k \in DOMAIN bodies |-> g(k, bodies[k].position, bodies)]
    /\ pc' = "while"
    /\ UNCHANGED <<file, time_step, margin, raised, bodies, trojans, i, pre,
                   reason, sampled>>

\* Lines 232-234 and 65: the loop test and the entry of the propagator.
PropagateCall ==
    /\ pc = "while"
    /\ in_margin
    /\ time > -(MaxBackSteps * YEAR)
    /\ pc' = "propagate"
    /\ i' = FirstUpdated
    /\ pre' = bodies
    /\ UNCHANGED <<file, time_step, margin, raised, bodies, trojans,
                   acceleration, time, years, in_margin, reason, sampled,
                   t, p1, p2>>

\* Lines 65-83: one iteration of the loop of propogate_orbits.
PropagateBody ==
    /\ pc = "propagate"
    /\ i < Len0(bodies)
    /\ bodies' = RK4Body(bodies, i, time_step)
    /\ i' = i + 1
    /\ UNCHANGED <<file, time_step, margin, pc, raised, trojans, acceleration,
                   pre, time, years, in_margin, reason, sampled, t, p1, p2>>

\* The cap tested with > in place of >=.
CapReachedLate(y) == y > YearCap

\* The year cap of line 255.
CapReached(y) == y >= YearCap

\* Lines 85 and 235-256: the propagator returns; the rest of the loop body.
LoopTail ==
    /\ pc = "propagate"
    /\ i >= Len0(bodies)
    /\ time' = time + time_step
    /\ LET newYear == Quot(time', YEAR) > years
           y       == IF newYear THEN years + 1 ELSE years
           P1      == orbital_period(bodies[trojans[0]], bodies[0])
           P2      == orbital_period(bodies[trojans[1]], bodies[0])
           ok      == IF newYear
                      THEN check_margins(bodies[trojans[0]], bodies[trojans[1]],
                                         bodies[0], margin)
                      ELSE in_margin
       IN  /\ sampled' = newYear
           /\ years' = y
           /\ t'  = IF newYear THEN Append(t, y) ELSE t
           /\ p1' = IF newYear THEN Append(p1, Quot(P1, DAY)) ELSE p1
           /\ p2' = IF newYear THEN Append(p2, Quot(P2, DAY)) ELSE p2
           /\ in_margin' = (ok /\ ~ CapReached(y))
           /\ reason' = IF ~ ok THEN "margin exceeded"
                        ELSE IF CapReached(y) THEN "time limit"
                        ELSE reason
    /\ pc' = "while"
    /\ UNCHANGED <<file, time_step, margin, raised, bodies, trojans,
                   acceleration, i, pre>>

\* Lines 258-262: the loop has ended.
Finish ==
    /\ pc = "while"
    /\ ~ in_margin
    /\ pc' = "done"
    /\ UNCHANGED <<file, time_step, margin, raised, bodies, trojans,
                   acceleration, i, pre, time, years, in_margin, reason,
                   sampled, t, p1, p2>>

Next ==
    \/ ParseArgs
    \/ Main
    \/ SimulateInit
    \/ PropagateCall
    \/ PropagateBody
    \/ LoopTail
    \/ Finish

Spec == Init /\ [][Next]_vars

\* simulate runs to its end without waiting on anything: every step that can
\* be taken is taken.
FairSpec == Spec /\ WF_vars(Next)

-----------------------------------------------------------------------------
(* The claims *)

\* The run got past parse_system: the file was accepted.
Accepted == pc \in {"simulate", "while", "propagate", "done"}

\* simulate is in or past its loop.
InLoop == pc \in {"while", "propagate", "done"}

\* The body list parse_system returned for the file.
Parsed == parse_system(file).bodies

\* The number of STAR lines of a file.
StarLines(lines) == Cardinality({k \in 1 .. Len(lines) : lines[k].kind = "STAR"})

\* Two bodies of the list are at the same position.
Coincide(bs) ==
    \E k \in DOMAIN bs : \E j \in DOMAIN bs \ {k} :
        bs[k].position = bs[j].position

\* The run is one the specification allows: a positive step and margin, one
\* star, no two bodies at one place.
ValidRun ==
    /\ Accepted
    /\ time_step > 0
    /\ margin > 0
    /\ StarLines(file) = 1
    /\ ~ Coincide(Parsed)

\* C1: whatever the body list and the step, and however many calls of the
\* propagator have been made or begun, the position and the velocity of the
\* body at index 0 are those it had before the first call.
C1_StarInvariance ==
    InLoop => /\ bodies[0].position = Parsed[0].position
              /\ bodies[0].velocity = Parsed[0].velocity

\* A run has ended after the propagator moved a planet, with a star at index 0
\* whose own velocity is not zero.
C1_Witness ==
    /\ pc = "done"
    /\ years >= 1
    /\ bodies[0].type = "STAR"
    /\ bodies[0].velocity # Zero3
    /\ \E k \in DOMAIN bodies : bodies[k].position # Parsed[k].position

gAllOthers(index, pos, bs) == gLoop(0, Zero3, index, pos, bs)

\* C3: in a valid run the acceleration g returns for a target is the sum of
\* the contributions of every body whose index differs from the target's,
\* the star at index 0 included.
C3_AllOthersSummed ==
    (ValidRun /\ InLoop) =>
        \A k \in DOMAIN acceleration :
            acceleration[k] = gAllOthers(k, Parsed[k].position, Parsed)

\* The configuration is one the specification allows: a positive step and
\* margin and one star.
ValidConfig == Accepted /\ time_step > 0 /\ margin > 0 /\ StarLines(file) = 1

\* C4: under a valid configuration g returns no value for a position that
\* coincides with a source body, and a run whose bodies coincide does not go
\* on to the loop.
C4_SingularityAborts ==
    ValidConfig =>
        /\ \A k \in DOMAIN acceleration : ~ IsNaN(acceleration[k])
        /\ InLoop => ~ Coincide(Parsed)

\* The loop has just taken a yearly sample.
JustSampled == pc = "while" /\ sampled

\* The periods the yearly sample read.
SampledP1 == orbital_period(bodies[trojans[0]], bodies[0])
SampledP2 == orbital_period(bodies[trojans[1]], bodies[0])

\* |P1 - P2| / mean(P1, P2) * 100 > m / 10, both sides multiplied by
\* 10 * (P1 + P2); for P1 = P2 = 0 the quotient is nan, which is not greater.
PercentDiffAbove(P1, P2, m) == 2000 * Abs(P1 - P2) > m * (P1 + P2)

C7_ConfigRejected ==
    (pc = "propagate" /\ StarLines(file) = 1 /\ ~ Coincide(Parsed)) =>
        (time_step > 0 /\ margin > 0)

\* C8: a file parse_system accepts (here: one whose bodies are at different
\* places) has exactly one STAR line.
C8_ExactlyOneStar ==
    (Accepted /\ ~ Coincide(Parsed)) => StarLines(file) = 1

\* The bodies of the lines of a file, as parse_line builds them.
LineBodies(lines) == [k \in 1 .. Len(lines) |-> parse_line(lines[k]).body]

\* bs holds the bodies of ls, each as often as ls does.
SameBodies(bs, ls) ==
    /\ Len0(bs) = Len(ls)
    /\ \A b \in {ls[k] : k \in 1 .. Len(ls)} :
           Cardinality({k \in DOMAIN bs : bs[k] = b})
               = Cardinality({k \in 1 .. Len(ls) : ls[k] = b})

\* C9: the list parse_system returns (here: for a file whose bodies are at
\* different places) has the star at index 0 and holds the bodies of the
\* file, none lost and none twice.
C9_StarFirst ==
    (pc = "simulate" /\ ~ Coincide(bodies)) =>
        /\ bodies[0].type = "STAR"
        /\ SameBodies(bodies, LineBodies(file))

\* C10: in a valid run the period sampled for a Trojan is
\* T = 2 pi sqrt(a^3 / mu) wherever that is a finite number.
C10_KeplerPeriod ==
    (ValidRun /\ JustSampled) =>
        \A k \in {0, 1} :
            LET self == bodies[trojans[k]]
                mu   == standard_gravitational_parameter(self, bodies[0])
                T    == KeplerT(semimajor_axis(self, bodies[0]), mu)
            IN  T # NonFinite =>
                    Finite(orbital_period(self, bodies[0])) = T

\* The whole years in an elapsed time s >= 0: floor(s / YEAR).
WholeYears(s) == s \div YEAR

\* The last iteration took the elapsed time across a multiple of one year.
CrossedYear == WholeYears(time) > WholeYears(time - time_step)

\* C11: in a valid run, after every iteration of the loop the year counter is
\* floor(time / YEAR), the series t, p1 and p2 hold one sample per counted
\* year with the year indices 1, 2, ..., years in order, and the iteration
\* sampled exactly when the elapsed time crossed a multiple of one year.
C11_YearCount ==
    (ValidRun /\ pc = "while" /\ time > 0) =>
        /\ years = WholeYears(time)
        /\ t = [k \in 1 .. years |-> k]
        /\ Len(p1) = years
        /\ Len(p2) = years
        /\ sampled <=> CrossedYear

\* The indices of the bodies of a list that are flagged trojan=True.
Flagged(bs) == {k \in DOMAIN bs : bs[k].trojan}

\* The period of body k of the list about the body at index 0, in days, as
\* the yearly sample stores it.
PeriodDays(bs, k) == Quot(orbital_period(bs[k], bs[0]), DAY)

\* C12: in a valid run (an accepted file with one star and no two bodies at
\* one place), the two Trojan indices are, in the reordered list, the indices
\* of the two bodies flagged trojan=True and neither is the star's index 0;
\* and a yearly sample stores the periods of those two bodies.
C12_TrojanIndices ==
    ValidRun =>
        /\ {trojans[0], trojans[1]} = Flagged(bodies)
        /\ trojans[0] # 0
        /\ trojans[1] # 0
        /\ bodies[trojans[0]].type # "STAR"
        /\ bodies[trojans[1]].type # "STAR"
        /\ JustSampled =>
               {p1[Len(p1)], p2[Len(p2)]}
                   = {PeriodDays(bodies, k) : k \in Flagged(bodies)}

====
